---- MODULE Spec2Model ----
(***************************************************************************)
(* Model of usb_writer.py: one run of main(), from argument parsing to the *)
(* process exit.  Strings are TLA+ strings (\o is Python's +), a command   *)
(* line is the argv list handed to subprocess, and every subprocess call   *)
(* is logged in `calls' with the outcome the environment gave it.          *)
(***************************************************************************)
EXTENDS Integers, Sequences, FiniteSets, TLC

VARIABLES
    args,        \* argparse namespace: list, target, iso, parttable, format, yes
    system,      \* platform.system()
    env,         \* what the machine answers: euid, admin, sgdisk, parted, iso_exists
    pc,          \* position of the run in main()
    steps,       \* functions main() has called so far, in call order
    ans,         \* what the operator typed at the prompt of confirm()
    calls,       \* subprocess invocations so far: [argv, result]
    out,         \* lines printed so far (stdout and the sys.exit messages)
    part,        \* local `part' of format_partition_unix
    pfile,       \* lines of the diskpart script file written by main()
    exitStatus   \* <<>> while running, <<code>> once the process has exited

vars == <<args, system, env, pc, steps, ans, calls, out, part, pfile, exitStatus>>

----------------------------------------------------------------------------
(* Input universe *)

None == "<None>"                 \* Python's None (an option that was not given)

Systems == {"Linux", "Darwin", "Windows", "FreeBSD"}
UnixSystems == {"Linux", "Darwin"}

TargetIds == {"/dev/sdb", "/dev/nvme0n1", "1"}
TargetArgs == TargetIds \cup {None, ""}
IsoArgs == {None, "linux.iso"}
ParttableChoices == {"gpt", "mbr"}
ParttableArgs == ParttableChoices \cup {None}
FormatArgs == {None, "ext4", "ext2", "vfat", "fat32", "ntfs", "xfs"}
Answers == TargetIds \cup {"YES", "yes", ""}

\* euid of the process; IsUserAnAdmin() answer ("error": ctypes raised)
Euids == {0, 1000}
AdminAnswers == {"yes", "no", "error"}

Truthy(v) == v # None /\ v # ""
PyStr(v) == IF v = None THEN "None" ELSE v

----------------------------------------------------------------------------
(* Process exit *)

Exited == pc = "exited"

\* sys.exit(<int>) / parser.error
ExitWithCode(code, lines) ==
    /\ pc' = "exited"
    /\ exitStatus' = <<code>>
    /\ out' = out \o lines

\* sys.exit(<str>), raise SystemExit(<str>), or an uncaught exception:
\* the text goes to stderr and the status is 1
ExitWithMessage(lines) == ExitWithCode(1, lines)

\* one subprocess invocation with the outcome the environment gave it
Call(argv, result) == [argv |-> argv, result |-> result]

----------------------------------------------------------------------------
(* Initial state: any command line on any machine *)

Init ==
    /\ system \in Systems
    /\ args \in [list : BOOLEAN, target : TargetArgs, iso : IsoArgs,
                 parttable : ParttableArgs, format : FormatArgs, yes : BOOLEAN]
    /\ env \in [euid : Euids, admin : AdminAnswers, sgdisk : BOOLEAN,
                parted : BOOLEAN, iso_exists : BOOLEAN]
    \* answers the run never asks for are fixed
    /\ system \notin UnixSystems => env.euid = 0 /\ env.sgdisk /\ env.parted
    /\ system # "Windows" => env.admin = "yes"
    /\ args.iso = None => env.iso_exists
    /\ pc = "main"
    /\ steps = <<>>
    /\ ans = None
    /\ calls = <<>>
    /\ out = <<>>
    /\ part = None
    /\ pfile = <<>>
    /\ exitStatus = <<>>

----------------------------------------------------------------------------
(* main(): argument handling, lines 199-206 *)

\* main() that demands --target before it looks at --list
ParseArgs_target_first ==
    /\ pc = "main"
    /\ IF ~Truthy(args.target)
         THEN ExitWithCode(2, <<"error: --target is required unless --list is used">>)
         ELSE /\ pc' = IF args.list THEN "list_disks" ELSE "check_root"
              /\ UNCHANGED <<out, exitStatus>>
    /\ UNCHANGED <<args, system, env, steps, ans, calls, part, pfile>>

ParseArgs ==
    /\ pc = "main"
    /\ IF args.list
         THEN /\ pc' = "list_disks"
              /\ UNCHANGED <<out, exitStatus>>
         ELSE IF ~Truthy(args.target)
           THEN ExitWithCode(2, <<"error: --target is required unless --list is used">>)
           ELSE /\ pc' = "check_root"
                /\ UNCHANGED <<out, exitStatus>>
    /\ UNCHANGED <<args, system, env, steps, ans, calls, part, pfile>>

----------------------------------------------------------------------------
(* Disk listing, lines 50-94 *)

\* subprocess.check_output either returns the text or raises
OutputResults == {"ok", "failed"}

LsblkCmd == <<"lsblk", "-o", "NAME,SIZE,TYPE,MOUNTPOINT,MODEL,TRAN">>
ProcPartitionsCmd == <<"cat", "/proc/partitions">>
DiskutilCmd == <<"diskutil", "list">>
GetDiskCmd == <<"powershell", "-Command", "Get-Disk | Format-Table -AutoSize">>

\* list_disks_unix: lsblk, falling back to /proc/partitions
list_disks_unix(r1, r2) ==
    IF r1 = "ok"
      THEN [calls |-> <<Call(LsblkCmd, r1)>>, out |-> <<"<lsblk output>">>]
      ELSE [calls |-> <<Call(LsblkCmd, r1), Call(ProcPartitionsCmd, r2)>>,
            out |-> IF r2 = "ok" THEN <<"<partitions output>">>
                                 ELSE <<"Failed to list disks:">>]

list_disks_mac(r1) ==
    [calls |-> <<Call(DiskutilCmd, r1)>>,
     out |-> IF r1 = "ok" THEN <<"<diskutil output>">>
                          ELSE <<"Failed to list disks with diskutil:">>]

list_disks_windows(r1) ==
    [calls |-> <<Call(GetDiskCmd, r1)>>,
     out |-> IF r1 = "ok" THEN <<"<Get-Disk output>">>
                          ELSE <<"Failed to list disks via PowerShell:">>]

list_disks(r1, r2) ==
    IF system = "Linux" THEN list_disks_unix(r1, r2)
    ELSE IF system = "Darwin" THEN list_disks_mac(r1)
    ELSE IF system = "Windows" THEN list_disks_windows(r1)
    ELSE [calls |-> <<>>, out |-> <<"Unsupported OS for automatic disk listing">>]

\* main(), lines 201-203: list the disks and return
ListDisks ==
    /\ pc = "list_disks"
    /\ \E r1 \in OutputResults, r2 \in OutputResults :
         LET r == list_disks(r1, r2) IN
           /\ calls' = calls \o r.calls
           /\ ExitWithCode(0, <<"Detected OS: " \o system>> \o r.out)
    /\ steps' = Append(steps, "list_disks")
    /\ UNCHANGED <<args, system, env, ans, part, pfile>>

----------------------------------------------------------------------------
(* Privilege check, lines 35-46 and 208 *)

\* check_root() without its Windows branch
check_root_exits_unix_only ==
    system \in {"Linux", "Darwin"} /\ env.euid # 0

\* TRUE when check_root() ends the process.  On Windows an exception of the
\* ctypes query is swallowed (except Exception: pass); sys.exit is not.
check_root_exits ==
    IF system \in {"Linux", "Darwin"} THEN env.euid # 0
    ELSE IF system = "Windows" THEN env.admin = "no"
    ELSE FALSE

check_root_message ==
    IF system = "Windows"
      THEN "Please run this script from an elevated Administrator PowerShell. Exiting."
      ELSE "This script must be run as root (sudo). Exiting."

CheckRoot ==
    /\ pc = "check_root"
    /\ steps' = Append(steps, "check_root")
    /\ IF check_root_exits
         THEN ExitWithMessage(<<check_root_message>>)
         ELSE /\ pc' = "confirm"
              /\ UNCHANGED <<out, exitStatus>>
    /\ UNCHANGED <<args, system, env, ans, calls, part, pfile>>

----------------------------------------------------------------------------
(* Confirmation, lines 178-185 and 212-213 *)

confirm_banner(target) ==
    << "!!! WARNING !!!",
       "About to erase/modify device: " \o target,
       "This action is destructive and irreversible. Make sure you selected the correct device.",
       "Type the device path (or 'YES' to confirm): " >>

\* confirm() that takes a bare Enter as consent
confirm_accepts_empty(typed, target) ==
    typed = target \/ typed = "YES" \/ typed = ""

\* line 183 negated: the answer lets the run go on
confirm_accepts(typed, target) == ~(typed # target /\ typed # "YES")

\* main() with --yes: confirm() is not called
ConfirmSkipped ==
    /\ pc = "confirm"
    /\ args.yes
    /\ pc' = "parttable"
    /\ UNCHANGED <<args, system, env, steps, ans, calls, out, part, pfile, exitStatus>>

Confirm ==
    /\ pc = "confirm"
    /\ ~args.yes
    /\ steps' = Append(steps, "confirm")
    /\ \/ \E typed \in Answers :
            /\ ans' = typed
            /\ IF confirm_accepts(typed, args.target)
                 THEN /\ pc' = "parttable"
                      /\ out' = out \o confirm_banner(args.target)
                      /\ UNCHANGED exitStatus
                 ELSE ExitWithCode(1, confirm_banner(args.target)
                                        \o <<"Confirmation failed. Aborting.">>)
       \* stdin is closed: input() raises EOFError, which nothing catches
       \/ /\ ExitWithMessage(confirm_banner(args.target) \o <<"EOFError">>)
          /\ UNCHANGED ans
    /\ UNCHANGED <<args, system, env, calls, part, pfile>>

----------------------------------------------------------------------------
(* Partition table creation, lines 98-117 and 216-219 *)

\* subprocess.check_call of a tool that shutil.which found: exit 0 or not
CheckResults == {"ok", "failed"}

\* lines 101-105
sgdisk_cmd(device, table) ==
    IF table = "gpt" THEN <<"sgdisk", "--zap-all", device>>
                     ELSE <<"sgdisk", "--mbrtogpt=1", device>>

\* line 113
parted_mklabel_cmd(device, table) == <<"parted", "-s", device, "mklabel", table>>

\* create_partition_table_unix that probes parted before sgdisk
partition_table_cmd_parted_first(device, table) ==
    IF env.parted THEN parted_mklabel_cmd(device, table)
    ELSE IF env.sgdisk THEN sgdisk_cmd(device, table)
    ELSE <<>>

\* the command create_partition_table_unix runs; <<>> when it has no tool
partition_table_cmd(device, table) ==
    IF env.sgdisk THEN sgdisk_cmd(device, table)
    ELSE IF env.parted THEN parted_mklabel_cmd(device, table)
    ELSE <<>>

partition_table_failure(cmd) ==
    IF cmd[1] = "sgdisk" THEN "sgdisk failed:" ELSE "parted failed:"

\* where main() goes after create_partition_table_unix returns (line 220)
after_partition_table == IF Truthy(args.format) THEN "format" ELSE "iso"

CreatePartitionTableUnix ==
    /\ pc = "parttable"
    /\ Truthy(args.parttable)
    /\ system \in {"Linux", "Darwin"}
    /\ steps' = Append(steps, "create_partition_table_unix")
    /\ LET cmd == partition_table_cmd(args.target, args.parttable)
           banner == "Creating partition table " \o args.parttable
                        \o " on " \o args.target
       IN IF cmd = <<>>
            THEN /\ ExitWithMessage(<<banner,
                       "Neither sgdisk nor parted found. Install parted (or gdisk) and retry.">>)
                 /\ UNCHANGED calls
            ELSE \E r \in CheckResults :
                   /\ calls' = Append(calls, Call(cmd, r))
                   /\ out' = out \o <<banner>> \o
                        (IF r = "ok" THEN <<>> ELSE <<partition_table_failure(cmd)>>)
                   /\ pc' = after_partition_table
                   /\ UNCHANGED exitStatus
    /\ UNCHANGED <<args, system, env, ans, part, pfile>>

----------------------------------------------------------------------------
(* Windows partitioning and formatting, lines 222-233 *)

\* line 225, one element per line of the script
diskpart_script(target, parttable, format) ==
    << "select disk " \o target,
       "clean",
       "convert " \o PyStr(parttable),
       "create partition primary",
       "format fs=" \o PyStr(format) \o " quick",
       "assign",
       "exit" >>

DiskpartCmd == <<"diskpart", "/s", "diskpart_script.txt">>

\* check_call under `except Exception': a missing diskpart is caught as well
DiskpartResults == {"ok", "failed", "notfound"}

DiskpartWindows ==
    /\ pc = "parttable"
    /\ Truthy(args.parttable)
    /\ system \notin {"Linux", "Darwin"}
    /\ system = "Windows"
    /\ pfile' = diskpart_script(args.target, args.parttable, args.format)
    /\ \E r \in DiskpartResults :
         /\ calls' = Append(calls, Call(DiskpartCmd, r))
         /\ out' = out \o <<"Windows partitioning/formatting path",
                            "Running diskpart script (requires admin)">>
                       \o (IF r = "ok" THEN <<>> ELSE <<"diskpart failed:">>)
    /\ pc' = "iso"
    /\ UNCHANGED <<args, system, env, steps, ans, part, exitStatus>>

\* --parttable not given, or a platform main() has no branch for
PartitionTableSkipped ==
    /\ pc = "parttable"
    /\ \/ ~Truthy(args.parttable)
       \/ system \notin {"Linux", "Darwin", "Windows"}
    /\ pc' = "iso"
    /\ UNCHANGED <<args, system, env, steps, ans, calls, out, part, pfile, exitStatus>>

----------------------------------------------------------------------------
(* Partition creation and formatting, lines 120-154 *)

\* line 127
mkpart_cmd(device, fs_type) ==
    <<"parted", "-s", device, "mkpart", "primary", fs_type, "0%", "100%">>

\* lines 132-139: None stands for the SystemExit of line 139
partition_path(device) ==
    IF system = "Linux" THEN device \o "1"
    ELSE IF system = "Darwin" THEN device \o "s1"
    ELSE None

SleepCmd == <<"sleep", "1">>

\* lines 143-150: <<>> stands for the SystemExit of line 150
mkfs_cmd(fs_type, p) ==
    IF fs_type \in {"ext4", "ext3", "ext2"} THEN <<"mkfs." \o fs_type, p>>
    ELSE IF fs_type \in {"vfat", "fat32"} THEN <<"mkfs.vfat", p>>
    ELSE IF fs_type = "ntfs" THEN <<"mkfs.ntfs", p>>
    ELSE <<>>

\* check_call of a tool nobody looked up: it may be missing (FileNotFoundError)
MkfsResults == {"ok", "failed", "notfound"}

\* format_partition_unix that tries parted mkpart a second time
FormatCreatePartition_retry ==
    /\ pc = "format"
    /\ steps' = Append(steps, "format_partition_unix")
    /\ IF ~env.parted
         THEN /\ ExitWithMessage(<<"parted not available. Install parted and retry.">>)
              /\ UNCHANGED calls
         ELSE \E r \in CheckResults :
                LET cmd == mkpart_cmd(args.target, args.format) IN
                /\ calls' = Append(calls, Call(cmd, r))
                /\ IF r = "ok"
                     THEN /\ pc' = "format_settle"
                          /\ UNCHANGED out
                     ELSE /\ pc' = IF \E i \in DOMAIN calls : calls[i].argv = cmd
                                     THEN "iso" ELSE "format"
                          /\ out' = Append(out, "Failed to create partition:")
                /\ UNCHANGED exitStatus
    /\ UNCHANGED <<args, system, env, ans, part, pfile>>

\* format_partition_unix without the return of line 130
FormatCreatePartition_no_return ==
    /\ pc = "format"
    /\ steps' = Append(steps, "format_partition_unix")
    /\ IF ~env.parted
         THEN /\ ExitWithMessage(<<"parted not available. Install parted and retry.">>)
              /\ UNCHANGED calls
         ELSE \E r \in CheckResults :
                /\ calls' = Append(calls, Call(mkpart_cmd(args.target, args.format), r))
                /\ pc' = "format_settle"
                /\ out' = IF r = "ok" THEN out
                                      ELSE Append(out, "Failed to create partition:")
                /\ UNCHANGED exitStatus
    /\ UNCHANGED <<args, system, env, ans, part, pfile>>

\* lines 124-130
FormatCreatePartition ==
    /\ pc = "format"
    /\ steps' = Append(steps, "format_partition_unix")
    /\ IF ~env.parted
         THEN /\ ExitWithMessage(<<"parted not available. Install parted and retry.">>)
              /\ UNCHANGED calls
         ELSE \E r \in CheckResults :
                /\ calls' = Append(calls, Call(mkpart_cmd(args.target, args.format), r))
                /\ IF r = "ok"
                     THEN /\ pc' = "format_settle"
                          /\ UNCHANGED out
                     ELSE /\ pc' = "iso"
                          /\ out' = Append(out, "Failed to create partition:")
                /\ UNCHANGED exitStatus
    /\ UNCHANGED <<args, system, env, ans, part, pfile>>

\* format_partition_unix without the sleep of line 141
FormatSettle_no_wait ==
    /\ pc = "format_settle"
    /\ part' = partition_path(args.target)
    /\ IF part' = None
         THEN /\ ExitWithMessage(<<"Unsupported OS for formatting partitions via this script">>)
              /\ UNCHANGED calls
         ELSE /\ pc' = "format_mkfs"
              /\ UNCHANGED <<calls, out, exitStatus>>
    /\ UNCHANGED <<args, system, env, steps, ans, pfile>>

\* lines 131-141
FormatSettle ==
    /\ pc = "format_settle"
    /\ part' = partition_path(args.target)
    /\ IF part' = None
         THEN /\ ExitWithMessage(<<"Unsupported OS for formatting partitions via this script">>)
              /\ UNCHANGED calls
         ELSE /\ \E r \in CheckResults :
                   calls' = IF system # "Windows" THEN Append(calls, Call(SleepCmd, r))
                                                   ELSE calls
              /\ pc' = "format_mkfs"
              /\ UNCHANGED <<out, exitStatus>>
    /\ UNCHANGED <<args, system, env, steps, ans, pfile>>

\* lines 142-154
FormatMkfs ==
    /\ pc = "format_mkfs"
    /\ LET mkcmd == mkfs_cmd(args.format, part) IN
         IF mkcmd = <<>>
           THEN /\ ExitWithMessage(<<"Unsupported filesystem: " \o args.format>>)
                /\ UNCHANGED calls
           ELSE \E r \in MkfsResults :
                  /\ calls' = Append(calls, Call(mkcmd, r))
                  /\ IF r = "notfound"
                       THEN ExitWithMessage(<<"FileNotFoundError: " \o mkcmd[1]>>)
                       ELSE /\ pc' = "iso"
                            /\ out' = out \o (IF r = "ok" THEN <<>> ELSE <<"mkfs failed:">>)
                            /\ UNCHANGED exitStatus
    /\ UNCHANGED <<args, system, env, steps, ans, part, pfile>>

----------------------------------------------------------------------------
(* Raw write, lines 157-173 and 236-240 *)

RECURSIVE Join(_)
\* " ".join(cmd)
Join(cmd) ==
    IF Len(cmd) = 0 THEN ""
    ELSE IF Len(cmd) = 1 THEN cmd[1]
    ELSE cmd[1] \o " " \o Join(Tail(cmd))

\* lines 161-163
dd_cmd(device, iso_path) ==
    LET bs == "4M"
        conv == "status=progress conv=fsync"
    IN <<"dd", "if=" \o iso_path, "of=" \o device, "bs=" \o bs, conv>>

\* write_iso_unix without the existence test
iso_found_unchecked == TRUE

\* line 159: Path(iso_path).exists()
iso_found == env.iso_exists

\* main() that writes the image first and formats afterwards
WriteIsoUnix_before_format ==
    /\ pc = "iso"
    /\ Truthy(args.iso)
    /\ system \in {"Linux", "Darwin"}
    /\ steps' = Append(steps, "write_iso_unix")
    /\ IF ~iso_found
         THEN /\ ExitWithMessage(<<"ISO file not found: " \o args.iso>>)
              /\ UNCHANGED calls
         ELSE LET cmd == dd_cmd(args.target, args.iso) IN
              \E r \in CheckResults :
                /\ calls' = Append(calls, Call(cmd, r))
                /\ out' = out \o <<"Running: " \o Join(cmd)>>
                              \o (IF r = "ok" THEN <<>> ELSE <<"dd failed:">>)
                /\ pc' = IF /\ Truthy(args.format)
                            /\ \A i \in DOMAIN steps : steps[i] # "format_partition_unix"
                           THEN "format" ELSE "done"
                /\ UNCHANGED exitStatus
    /\ UNCHANGED <<args, system, env, ans, part, pfile>>

WriteIsoUnix ==
    /\ pc = "iso"
    /\ Truthy(args.iso)
    /\ system \in {"Linux", "Darwin"}
    /\ steps' = Append(steps, "write_iso_unix")
    /\ IF ~iso_found
         THEN /\ ExitWithMessage(<<"ISO file not found: " \o args.iso>>)
              /\ UNCHANGED calls
         ELSE LET cmd == dd_cmd(args.target, args.iso) IN
              \E r \in CheckResults :
                /\ calls' = Append(calls, Call(cmd, r))
                /\ out' = out \o <<"Running: " \o Join(cmd)>>
                              \o (IF r = "ok" THEN <<>> ELSE <<"dd failed:">>)
                /\ pc' = "done"
                /\ UNCHANGED exitStatus
    /\ UNCHANGED <<args, system, env, ans, part, pfile>>

\* lines 171-173
WriteIsoWindows ==
    /\ pc = "iso"
    /\ Truthy(args.iso)
    /\ system \notin {"Linux", "Darwin"}
    /\ system = "Windows"
    /\ steps' = Append(steps, "write_iso_windows")
    /\ ExitWithMessage(<<"Windows raw write not implemented. Use Rufus or Win32 Disk Imager on Windows.">>)
    /\ UNCHANGED <<args, system, env, ans, calls, part, pfile>>

\* --iso not given, or a platform main() has no branch for
WriteSkipped ==
    /\ pc = "iso"
    /\ \/ ~Truthy(args.iso)
       \/ system \notin {"Linux", "Darwin", "Windows"}
    /\ pc' = "done"
    /\ UNCHANGED <<args, system, env, steps, ans, calls, out, part, pfile, exitStatus>>

\* line 242, then main() returns
Finish ==
    /\ pc = "done"
    /\ ExitWithCode(0, <<"Done. Remember to safely eject the device.">>)
    /\ UNCHANGED <<args, system, env, steps, ans, calls, part, pfile>>

----------------------------------------------------------------------------
Next ==
    \/ ParseArgs
    \/ ListDisks
    \/ CheckRoot
    \/ ConfirmSkipped
    \/ Confirm
    \/ CreatePartitionTableUnix
    \/ DiskpartWindows
    \/ PartitionTableSkipped
    \/ FormatCreatePartition
    \/ FormatSettle
    \/ FormatMkfs
    \/ WriteIsoUnix
    \/ WriteIsoWindows
    \/ WriteSkipped
    \/ Finish

Spec == Init /\ [][Next]_vars

----------------------------------------------------------------------------
(* Vocabulary of the properties *)

Tool(c) == c.argv[1]

MkfsTools == {"mkfs.ext4", "mkfs.ext3", "mkfs.ext2", "mkfs.vfat", "mkfs.ntfs"}
SupportedFilesystems == {"ext2", "ext3", "ext4", "vfat", "fat32", "ntfs"}

IsPartitionTableCall(c) ==
    \/ Tool(c) = "sgdisk"
    \/ Tool(c) = "parted" /\ c.argv[4] = "mklabel"
    \/ Tool(c) = "diskpart"
IsPartitionCreateCall(c) == Tool(c) = "parted" /\ c.argv[4] = "mkpart"
IsFilesystemCreateCall(c) == Tool(c) \in MkfsTools
IsRawCopyCall(c) == Tool(c) = "dd"
IsDestructiveCall(c) ==
    \/ IsPartitionTableCall(c)
    \/ IsPartitionCreateCall(c)
    \/ IsFilesystemCreateCall(c)
    \/ IsRawCopyCall(c)

NoDestructiveCall == \A i \in DOMAIN calls : ~IsDestructiveCall(calls[i])
Succeeded(c) == c.result = "ok"
ExitedNonZero(c) == c.result = "failed"

Printed(line) == \E i \in DOMAIN out : out[i] = line
Called(f) == \E i \in DOMAIN steps : steps[i] = f
DoneLine == "Done. Remember to safely eject the device."
ReportsDone == Exited /\ exitStatus = <<0>> /\ Printed(DoneLine)
TargetMode == ~args.list /\ Truthy(args.target)

\* the operator answered the prompt with something that is no consent
Declined == ans # None /\ ans # args.target /\ ans # "YES"

----------------------------------------------------------------------------
(* C1: in target mode without --yes, an answer that is neither the target  *)
(* identifier nor 'YES' (the empty answer included) ends the run Aborted   *)
(* with a non-zero exit status, and no partitioning, formatting or raw     *)
(* write delegate has been invoked at any point of the run.                *)
C1_DeclinedRunAborts ==
    (TargetMode /\ ~args.yes /\ Declined) =>
        /\ Exited
        /\ exitStatus = <<1>>
        /\ Printed("Confirmation failed. Aborting.")
        /\ ~Printed(DoneLine)
        /\ NoDestructiveCall

\* an empty answer to a run that asked for all three destructive steps
C1_Witness ==
    /\ TargetMode /\ ~args.yes /\ ans = ""
    /\ Truthy(args.parttable) /\ Truthy(args.format) /\ Truthy(args.iso)
    /\ Exited

----------------------------------------------------------------------------
(* C2: if the partition-table delegate (sgdisk, parted mklabel, diskpart)  *)
(* exits non-zero, no partition-create, filesystem-create or raw-copy      *)
(* delegate is invoked afterwards and the run ends Failed (non-zero, no    *)
(* Done).                                                                  *)
C2_ProvisioningFailureStopsRun ==
    \A i \in DOMAIN calls :
        (IsPartitionTableCall(calls[i]) /\ ExitedNonZero(calls[i])) =>
            /\ \A j \in DOMAIN calls : j > i => ~IsDestructiveCall(calls[j])
            /\ Exited => (exitStatus # <<0>> /\ ~Printed(DoneLine))

----------------------------------------------------------------------------
(* C3: if the partition-create or the filesystem-create delegate exits     *)
(* non-zero, the raw-copy delegate is never invoked in that run and the    *)
(* run ends Failed with Formatting reported as the failing step.           *)
C3_FormattingFailureStopsRun ==
    \A i \in DOMAIN calls :
        ((IsPartitionCreateCall(calls[i]) \/ IsFilesystemCreateCall(calls[i]))
            /\ ExitedNonZero(calls[i])) =>
            /\ \A j \in DOMAIN calls : ~IsRawCopyCall(calls[j])
            /\ Printed("Failed to create partition:") \/ Printed("mkfs failed:")
            /\ Exited => (exitStatus # <<0>> /\ ~Printed(DoneLine))

----------------------------------------------------------------------------
(* C4: a target-mode run prints Done and exits 0 only if every requested   *)
(* step was executed and its delegate reported success.                    *)
ProvisioningSucceeded ==
    \E i \in DOMAIN calls : IsPartitionTableCall(calls[i]) /\ Succeeded(calls[i])
FormattingSucceeded ==
    \/ /\ \E i \in DOMAIN calls : IsPartitionCreateCall(calls[i]) /\ Succeeded(calls[i])
       /\ \E i \in DOMAIN calls : IsFilesystemCreateCall(calls[i]) /\ Succeeded(calls[i])
    \/ \E i \in DOMAIN calls : Tool(calls[i]) = "diskpart" /\ Succeeded(calls[i])
WritingSucceeded ==
    \E i \in DOMAIN calls : IsRawCopyCall(calls[i]) /\ Succeeded(calls[i])

C4_DoneOnlyIfEveryStepSucceeded ==
    (TargetMode /\ Exited /\ (exitStatus = <<0>> \/ Printed(DoneLine))) =>
        /\ Truthy(args.parttable) => ProvisioningSucceeded
        /\ Truthy(args.format) => FormattingSucceeded
        /\ Truthy(args.iso) => WritingSucceeded
        /\ \A i \in DOMAIN calls : IsDestructiveCall(calls[i]) => Succeeded(calls[i])

----------------------------------------------------------------------------
(* C5: without --parttable no partition-table delegate is invoked; without *)
(* --format no partition-create or filesystem-format operation is issued   *)
(* to any delegate, the lines of the diskpart script included.             *)
IsFormatScriptLine(line) ==
    \/ line = "create partition primary"
    \/ \E f \in FormatArgs : line = "format fs=" \o PyStr(f) \o " quick"

C5_SkippedStepsInvokeNothing ==
    /\ ~Truthy(args.parttable) =>
          \A i \in DOMAIN calls : ~IsPartitionTableCall(calls[i])
    /\ ~Truthy(args.format) =>
          /\ \A i \in DOMAIN calls :
                ~IsPartitionCreateCall(calls[i]) /\ ~IsFilesystemCreateCall(calls[i])
          /\ \A i \in DOMAIN calls : Tool(calls[i]) = "diskpart" =>
                \A k \in DOMAIN pfile : ~IsFormatScriptLine(pfile[k])

----------------------------------------------------------------------------
(* C6: with a filesystem kind outside ext2, ext3, ext4, vfat, fat32, ntfs  *)
(* the Formatting step fails with UnsupportedFilesystem and has invoked    *)
(* neither the partition-create delegate nor a filesystem-create delegate. *)
C6_UnsupportedFilesystemFailsFast ==
    (Called("format_partition_unix") /\ args.format \notin SupportedFilesystems) =>
        /\ \A i \in DOMAIN calls :
              ~IsPartitionCreateCall(calls[i]) /\ ~IsFilesystemCreateCall(calls[i])
        /\ Exited => /\ exitStatus # <<0>>
                     /\ Printed("Unsupported filesystem: " \o args.format)

----------------------------------------------------------------------------
(* C7: with --iso given and the image file missing, the run fails without  *)
(* any partition-table, partition-create, filesystem-create or raw-copy    *)
(* delegate having been invoked, also when --parttable and --format are    *)
(* given.                                                                  *)
C7_ImageCheckedBeforeDestruction ==
    (TargetMode /\ Truthy(args.iso) /\ ~env.iso_exists) =>
        /\ NoDestructiveCall
        /\ Exited => exitStatus # <<0>>

----------------------------------------------------------------------------
(* C8: if the image does not exist when write_iso_unix starts, it fails    *)
(* before dd is invoked, and the run ends with a non-zero exit status      *)
(* without reporting Done.                                                 *)
C8_MissingImageFailsBeforeCopy ==
    (Called("write_iso_unix") /\ ~env.iso_exists) =>
        /\ \A i \in DOMAIN calls : ~IsRawCopyCall(calls[i])
        /\ Exited
        /\ exitStatus = <<1>>
        /\ Printed("ISO file not found: " \o args.iso)
        /\ ~Printed(DoneLine)

\* the Writing step is reached after a provisioning call, with no image
C8_Witness ==
    /\ Called("write_iso_unix") /\ ~env.iso_exists
    /\ Called("create_partition_table_unix") /\ calls # <<>>
    /\ Exited

----------------------------------------------------------------------------
(* C9: with scheme mbr and sgdisk as the selected tool, provisioning fails *)
(* the run with UnsupportedConversion and never hands sgdisk a command     *)
(* that produces or converts to a GPT table.                               *)
C9_MbrOnSgdiskIsRefused ==
    (Called("create_partition_table_unix") /\ args.parttable = "mbr" /\ env.sgdisk) =>
        /\ \A i \in DOMAIN calls : Tool(calls[i]) # "sgdisk"
        /\ Exited => (exitStatus # <<0>> /\ ~Printed(DoneLine))

----------------------------------------------------------------------------
(* C10: in target mode the privilege check comes before the confirmation   *)
(* and before any destructive delegate, and a run whose privileges are not *)
(* positively verified (not elevated, or the check could not be carried    *)
(* out) invokes no destructive delegate and exits non-zero.                *)
CheckComesFirst ==
    (Called("confirm") \/ ~NoDestructiveCall \/ pc \notin {"main", "check_root", "exited"})
        => (steps # <<>> /\ steps[1] = "check_root")

PositivelyVerified ==
    \/ system \in UnixSystems /\ env.euid = 0
    \/ system = "Windows" /\ env.admin = "yes"

NotElevated ==
    \/ system \in UnixSystems /\ env.euid # 0
    \/ system = "Windows" /\ env.admin = "no"

PrivilegeRefusal ==
    "This script must be run as root (sudo). Exiting."

AdminRefusal ==
    "Please run this script from an elevated Administrator PowerShell. Exiting."

----------------------------------------------------------------------------
(* C11: a run with --list is standalone and non-destructive: whatever      *)
(* other flags accompany it, only device-enumeration delegates are invoked *)
(* (never a destructive one, never the privilege check or the prompt), and *)
(* the run ends with exit status 0 whether the enumeration succeeds or the *)
(* enumeration delegate is missing or fails.                               *)
EnumerationTools == {"lsblk", "cat", "diskutil", "powershell"}
IsEnumerationCall(c) == Tool(c) \in EnumerationTools

C11_ListModeIsStandalone ==
    args.list =>
        /\ \A i \in DOMAIN calls : IsEnumerationCall(calls[i])
        /\ NoDestructiveCall
        /\ \A i \in DOMAIN steps : steps[i] = "list_disks"
        /\ pc \in {"main", "list_disks", "exited"}
        /\ Exited => (exitStatus = <<0>> /\ Called("list_disks") /\ ~Printed(DoneLine))

\* --list next to every destructive flag, with an enumeration that failed
C11_Witness ==
    /\ args.list /\ Truthy(args.target) /\ Truthy(args.parttable)
    /\ Truthy(args.format) /\ Truthy(args.iso) /\ args.yes
    /\ Exited
    /\ \E i \in DOMAIN calls : IsEnumerationCall(calls[i]) /\ ~Succeeded(calls[i])

----------------------------------------------------------------------------
(* C12: the plan contains each step exactly when its own option is given:  *)
(* where --format is given and every earlier requested step succeeded, the *)
(* Formatting step is executed (partition-create and filesystem-create     *)
(* delegates invoked) whether or not --parttable is given.                 *)
FormattingAttempted ==
    \/ \E i \in DOMAIN calls : IsPartitionCreateCall(calls[i])
    \/ \E i \in DOMAIN calls : Tool(calls[i]) = "diskpart"

\* the run is past lines 216-233 of main(), where partitioning and
\* formatting are dispatched
PastFormatting == pc \in {"iso", "done"} \/ ReportsDone

C12_RequestedFormatIsExecuted ==
    (/\ TargetMode
     /\ system \in {"Linux", "Darwin", "Windows"}
     /\ Truthy(args.format)
     /\ PastFormatting
     /\ \A i \in DOMAIN calls : IsPartitionTableCall(calls[i]) => Succeeded(calls[i]))
        => FormattingAttempted

----------------------------------------------------------------------------
(* C13: destructive delegate invocations are sequential and in the fixed   *)
(* order Provision -> Format -> Write: every call has returned before the  *)
(* next is made, every partition-table call precedes every partition-     *)
(* create and filesystem-create call, and those precede the raw copy; no   *)
(* step's delegate is invoked after a later step's delegate.               *)
IsSettleCall(c) == Tool(c) = "sleep"

StepRank(c) ==
    IF IsPartitionTableCall(c) THEN 1
    ELSE IF IsPartitionCreateCall(c) \/ IsSettleCall(c) \/ IsFilesystemCreateCall(c) THEN 2
    ELSE IF IsRawCopyCall(c) THEN 3
    ELSE 0

C13_DelegatesInFixedOrder ==
    /\ \A i \in DOMAIN calls : calls[i].result \in {"ok", "failed", "notfound"}
    /\ \A i \in DOMAIN calls : \A j \in DOMAIN calls :
          (i < j /\ IsDestructiveCall(calls[i]) /\ IsDestructiveCall(calls[j]))
              => StepRank(calls[i]) <= StepRank(calls[j])
    /\ \A i \in DOMAIN calls : IsRawCopyCall(calls[i]) => i = Len(calls)

\* the full plan: table, partition, filesystem, copy, all successful
C13_Witness ==
    /\ Len(calls) = 5
    /\ IsPartitionTableCall(calls[1]) /\ IsPartitionCreateCall(calls[2])
    /\ IsSettleCall(calls[3]) /\ IsFilesystemCreateCall(calls[4])
    /\ IsRawCopyCall(calls[5])
    /\ \A i \in DOMAIN calls : Succeeded(calls[i])
    /\ ReportsDone

----------------------------------------------------------------------------
(* C14: if a requested step has no delegate on the platform (parted        *)
(* missing for Formatting, neither sgdisk nor parted for Provisioning, no  *)
(* raw write on Windows), the run fails before any step is executed: no    *)
(* destructive delegate of an earlier step has been invoked by then.       *)
NoDelegateMessages ==
    { "parted not available. Install parted and retry.",
      "Neither sgdisk nor parted found. Install parted (or gdisk) and retry.",
      "Windows raw write not implemented. Use Rufus or Win32 Disk Imager on Windows." }

C14_MissingDelegateFailsBeforeAnyStep ==
    (\E m \in NoDelegateMessages : Printed(m)) =>
        /\ NoDestructiveCall
        /\ Exited /\ exitStatus # <<0>>

----------------------------------------------------------------------------
(* C15: on Linux/macOS provisioning uses sgdisk when present, otherwise    *)
(* parted, and invokes exactly one of them; with neither present it fails  *)
(* (NoToolAvailable) without invoking a delegate and ends the run with a   *)
(* non-zero status, so that no Formatting or Writing delegate follows.     *)
PartitionTableCalls == {i \in DOMAIN calls : IsPartitionTableCall(calls[i])}

C15_ProvisionerStrategy ==
    Called("create_partition_table_unix") =>
        /\ env.sgdisk =>
              /\ Cardinality(PartitionTableCalls) = 1
              /\ Tool(calls[1]) = "sgdisk"
        /\ (~env.sgdisk /\ env.parted) =>
              /\ Cardinality(PartitionTableCalls) = 1
              /\ Tool(calls[1]) = "parted" /\ calls[1].argv[4] = "mklabel"
        /\ (~env.sgdisk /\ ~env.parted) =>
              /\ calls = <<>>
              /\ Exited /\ exitStatus = <<1>>
              /\ Printed("Neither sgdisk nor parted found. Install parted (or gdisk) and retry.")
              /\ ~Printed(DoneLine)

\* both tools installed, sgdisk was the one invoked, and the run went on
C15_Witness ==
    /\ Called("create_partition_table_unix")
    /\ env.sgdisk /\ env.parted
    /\ Len(calls) >= 2
    /\ ReportsDone

\* neither tool installed in a run that asked for all three steps
C15_WitnessNoTool ==
    /\ Called("create_partition_table_unix")
    /\ ~env.sgdisk /\ ~env.parted
    /\ Truthy(args.format) /\ Truthy(args.iso)
    /\ Exited

----------------------------------------------------------------------------
----------------------------------------------------------------------------
(* C17: the partition identifier handed to mkfs follows the suffix rule:   *)
(* whole-disk id, then a separator whenever the id ends in a digit, then   *)
(* the partition index 1; it names the first partition of that target and  *)
(* of no other disk.                                                       *)
DigitChars == {"0", "1", "2", "3", "4", "5", "6", "7", "8", "9"}

\* the target identifiers without their last character
TargetStems == {"/dev/sd", "/dev/nvme0n", ""}

EndsInDigit(s) == \E t \in TargetStems, d \in DigitChars : s = t \o d

PartitionSeparator == IF system = "Darwin" THEN "s" ELSE "p"

FirstPartitionOf(device) ==
    IF EndsInDigit(device) THEN device \o PartitionSeparator \o "1"
                           ELSE device \o "1"

C17_PartitionNameFollowsSuffixRule ==
    \A k \in DOMAIN calls : IsFilesystemCreateCall(calls[k]) =>
        /\ calls[k].argv[2] = FirstPartitionOf(args.target)
        /\ \A t \in TargetIds \ {args.target} :
              calls[k].argv[2] # t /\ calls[k].argv[2] # FirstPartitionOf(t)

----------------------------------------------------------------------------
(* C18: every dd invocation of write_iso_unix carries as separate operands *)
(* if=<image>, of=<device>, bs=4M and conv=fsync, so a successful Writing  *)
(* step always comes from a call that carried the sync request as its own  *)
(* operand.                                                                *)
HasOperand(c, operand) == \E n \in DOMAIN c.argv : n > 1 /\ c.argv[n] = operand

C18_CopyCarriesSyncOperand ==
    \A k \in DOMAIN calls : IsRawCopyCall(calls[k]) =>
        /\ HasOperand(calls[k], "if=" \o args.iso)
        /\ HasOperand(calls[k], "of=" \o args.target)
        /\ HasOperand(calls[k], "bs=4M")
        /\ HasOperand(calls[k], "conv=fsync")

----------------------------------------------------------------------------
(* C19: nothing is retried: in one run each destructive delegate role      *)
(* (partition-table tool or diskpart script, partition-create, filesystem- *)
(* create, raw-copy) is invoked at most once, and a delegate that reported *)
(* failure is never invoked again.                                         *)
CallsOf(Role(_)) == {i \in DOMAIN calls : Role(calls[i])}

C19_NothingIsRetried ==
    /\ Cardinality(CallsOf(IsPartitionTableCall)) <= 1
    /\ Cardinality(CallsOf(IsPartitionCreateCall)) <= 1
    /\ Cardinality(CallsOf(IsFilesystemCreateCall)) <= 1
    /\ Cardinality(CallsOf(IsRawCopyCall)) <= 1
    /\ \A i \in DOMAIN calls : \A j \in DOMAIN calls :
          (i < j /\ ~Succeeded(calls[i])) => calls[j].argv # calls[i].argv

\* a run that went on to its end after two of its delegates had failed
C19_Witness ==
    /\ Exited
    /\ \E i \in DOMAIN calls : IsPartitionTableCall(calls[i]) /\ ExitedNonZero(calls[i])
    /\ \E i \in DOMAIN calls : IsPartitionCreateCall(calls[i]) /\ ExitedNonZero(calls[i])
    /\ \E i \in DOMAIN calls : IsRawCopyCall(calls[i])

----------------------------------------------------------------------------
(* C20: when parted mkpart fails, format_partition_unix returns at once:   *)
(* neither the settling wait nor any mkfs is invoked in the rest of the    *)
(* step.                                                                   *)
C20_FailedMkpartEndsStep ==
    \A i \in DOMAIN calls :
        (IsPartitionCreateCall(calls[i]) /\ ~Succeeded(calls[i])) =>
            /\ \A j \in DOMAIN calls :
                  j > i => (~IsSettleCall(calls[j]) /\ ~IsFilesystemCreateCall(calls[j]))
            /\ Printed("Failed to create partition:")
            /\ part = None
            /\ pc \in {"iso", "done", "exited"}

\* mkpart failed and the run has gone past the Formatting step
C20_Witness ==
    /\ \E i \in DOMAIN calls : IsPartitionCreateCall(calls[i]) /\ ExitedNonZero(calls[i])
    /\ Called("format_partition_unix")
    /\ Exited
====
